---- MODULE Spec2Model ----
(***************************************************************************)
(* Model of the render-ai generation core: the model selector              *)
(* generateImages (lib/ai/index.ts), the three provider clients            *)
(* (nano-banana.ts, imagen.ts, flux.ts) and the prompt builder             *)
(* (prompt-builder.ts).                                                    *)
(*                                                                         *)
(* One behaviour is one invocation of generateImages.  The environment     *)
(* (presence of credentials) and the request are fixed at Init; the        *)
(* provider's answer is chosen when the awaited fetch settles.  Every      *)
(* await of the async code is a step boundary.                             *)
(*                                                                         *)
(* Further specifications over the same variables model the prompt         *)
(* builder alone (PromptSpec), the POST handler (RouteSpec), interleaved    *)
(* invocations (ConcSpec), the home page and its preview (PageSpec,         *)
(* PreviewSpec), decrement_credits (DbSpec) and GenerateForm (FormSpec).    *)
(*                                                                         *)
(* Japanese string literals of the source are written in romaji, one       *)
(* distinct ASCII string per distinct source literal.                      *)
(***************************************************************************)
EXTENDS Integers, Sequences, FiniteSets, TLC

VARIABLES
    env,        \* process.env: which credentials are set
    request,    \* the GenerationRequest passed to generateImages
    pc,         \* position of the invocation
    invoked,    \* provider clients invoked so far, in order
    calls,      \* outbound network requests made so far, in order
    result,     \* the value generateImages resolved with, or NoResult
    error,      \* the message generateImages rejected with, or NoError
    answer,     \* how the awaited generation fetch settled, or NoAnswer
    response,   \* the HTTP response of POST /api/generate, or NoResponse
    parked,     \* the invocations suspended at an await while another runs
    history,    \* app/page.tsx Home: the state `history`
    currentIndex, \* ImagePreview.tsx: the state `currentIndex`
    generated,  \* every result onGenerated was called with, oldest first
    isLoading,  \* GenerateForm: the state `isLoading`
    credits,    \* schema.sql: users.credits of one user row
    creditsBefore, \* users.credits before any decrement_credits call
    sessions    \* the decrement_credits calls in progress or finished

vars == <<env, request, pc, invoked, calls, result, error, answer, response, parked,
          history, currentIndex, generated, isLoading, credits, creditsBefore,
          sessions>>

\* the state of the browser page
page == <<history, currentIndex, generated, isLoading>>

\* the state of the database
database == <<credits, creditsBefore, sessions>>

\* what the provider clients and generateImages never touch
outside == <<response, parked, page, database>>

\* the page before anything was generated, and no database call
Elsewhere ==
    /\ history = << >>
    /\ currentIndex = 0
    /\ generated = << >>
    /\ isLoading = FALSE
    /\ credits = 0
    /\ creditsBefore = 0
    /\ sessions = << >>

----------------------------------------------------------------------------
(* Bounds *)

\* largest number of images a provider response carries
MaxRespImages == 4

\* number of invocations suspended besides the running one
NumParked == 1

\* number of results generated on the home page
MaxGenerations == 12

\* number of results generated while the preview is navigated
MaxPreviewed == 3

\* number of concurrent decrement_credits calls on the user row
NumCalls == 2

\* largest users.credits before the calls
MaxCredits == 3

\* number of submits of the form
MaxSubmits == 3

----------------------------------------------------------------------------
(* Closed enums of types/generation.ts *)

BuildingType == {"house", "apartment", "building", "shop"}

ArchitecturalStyle ==
    {"modern_minimal", "japanese_modern", "scandinavian", "industrial",
     "luxury", "mediterranean", "american"}

WallMaterial == {"siding", "concrete", "tile", "wood", "metal", "stucco"}

RoofType == {"flat", "gable", "hip", "shed", "gambrel"}

CameraAngle == {"front", "angle45", "aerial", "birdseye", "closeup", "distant"}

TimeOfDay == {"morning", "noon", "evening", "night"}

Season == {"spring", "summer", "autumn", "winter"}

Resolution == {"sd", "hd", "4k"}

LandShape == {"rectangle", "square", "L-shape", "flag", "irregular"}

AIModel == {"auto", "imagen4", "flux2", "gemini", "nano-banana"}

\* options.count: 1 | 4
ImageCount == {1, 4}

\* the value a JavaScript lookup of a missing key yields
Undefined == "undefined"

NoResult == [none |-> TRUE]

NoError == "none"

NoResponse == [status |-> 0]

----------------------------------------------------------------------------
(* Static tables of types/generation.ts *)

STYLE_PRESETS ==
    << [id |-> "modern_minimal", name |-> "Modern Minimal",
        nameJa |-> "modan minimaru",
        keywords |-> <<"chokusenteki", "garasu", "shinpuru", "shiro kichou">>],
       [id |-> "japanese_modern", name |-> "Japanese Modern",
        nameJa |-> "wa modan",
        keywords |-> <<"mokuzai", "koushi", "doma", "shizen sozai">>],
       [id |-> "scandinavian", name |-> "Scandinavian",
        nameJa |-> "hokuou sutairu",
        keywords |-> <<"sankaku yane", "atatakami", "shizen sozai", "shinpuru">>],
       [id |-> "industrial", name |-> "Industrial",
        nameJa |-> "indasutoriaru",
        keywords |-> <<"tekkotsu", "konkuriito", "bukotsu", "rofuto">>],
       [id |-> "luxury", name |-> "Luxury",
        nameJa |-> "ragujuarii",
        keywords |-> <<"koukyuu", "juukou", "shinmetorii", "sekizai">>],
       [id |-> "mediterranean", name |-> "Mediterranean",
        nameJa |-> "nanou sutairu",
        keywords |-> <<"terakotta", "shirokabe", "aachi", "chichuukai">>],
       [id |-> "american", name |-> "American",
        nameJa |-> "amerikan",
        keywords |-> <<"rappu saidingu", "poochi", "gareeji", "kougai">>] >>

MATERIAL_NAMES ==
    [siding |-> "saidingu", concrete |-> "konkuriito", tile |-> "tairu",
     wood |-> "mokuzai", metal |-> "kinzoku paneru", stucco |-> "nurikabe"]

\* ROOF_NAMES without an entry for 'gambrel'
ROOF_NAMES_NoGambrel ==
    [flat |-> "rikuyane", gable |-> "kirizuma yane", hip |-> "yosemune yane",
     shed |-> "katanagare yane"]

ROOF_NAMES ==
    [flat |-> "rikuyane", gable |-> "kirizuma yane", hip |-> "yosemune yane",
     shed |-> "katanagare yane", gambrel |-> "irimoya yane"]

\* obj[key] of JavaScript: the entry, or undefined when the key is missing
Lookup(table, key) ==
    IF key \in DOMAIN table THEN table[key] ELSE Undefined

----------------------------------------------------------------------------
(* Prompt builder, lib/ai/prompt-builder.ts *)

\* FindStyle whose predicate accepts every preset
FindStyleAnyPreset(id) == << STYLE_PRESETS[1] >>

\* STYLE_PRESETS.find(s => s.id === id): <<the first match>>, or << >>
\* for undefined
FindStyle(id) ==
    LET hits == {i \in 1..Len(STYLE_PRESETS) : STYLE_PRESETS[i].id = id}
    IN  IF hits = {} THEN << >>
        ELSE << STYLE_PRESETS[CHOOSE i \in hits : \A j \in hits : i <= j] >>

\* keywords.join(', ') as the list of its pieces
Join(kw) ==
    [i \in 1..(IF Len(kw) = 0 THEN 0 ELSE 2 * Len(kw) - 1) |->
        IF i % 2 = 1 THEN kw[(i + 1) \div 2] ELSE ", "]

buildingTypeMap ==
    [house |-> "residential house", apartment |-> "apartment building",
     building |-> "commercial building", shop |-> "retail shop building"]

timeMap ==
    [morning |-> "early morning golden hour light",
     noon |-> "bright midday sunlight",
     evening |-> "warm sunset lighting",
     night |-> "evening with ambient lighting and interior lights on"]

seasonMap ==
    [spring |-> "spring season with cherry blossoms",
     summer |-> "summer with lush green vegetation",
     autumn |-> "autumn with colorful foliage",
     winter |-> "winter with bare trees"]

cameraMap ==
    [front |-> "front elevation view, eye-level perspective",
     angle45 |-> "three-quarter view at 45 degrees, showing two facades",
     aerial |-> "aerial view from 30 degrees above",
     birdseye |-> "bird's eye view from directly above",
     closeup |-> "close-up view of the entrance",
     distant |-> "distant view showing the building in its environment"]

\* buildPrompt that prints the land area as the total floor area
buildPromptLandForTotal(req) ==
    LET style == FindStyle(req.style)
        styleName == IF style = << >> THEN "Modern" ELSE style[1].name
        styleKeywords == IF style = << >> THEN << >> ELSE Join(style[1].keywords)
    IN  << <<"Photorealistic architectural exterior rendering of a ",
             styleName, " ", Lookup(buildingTypeMap, req.buildingType), ".">>,
           <<"BUILDING SPECIFICATIONS:">>,
           <<"- Number of floors: ", ToString(req.floors)>>,
           <<"- Total floor area: approximately ", ToString(req.landArea), " square meters">>,
           <<"- Land area: approximately ", ToString(req.landArea), " square meters">>,
           <<"- Land shape: ", req.landShape>>,
           <<"ARCHITECTURAL STYLE:">>,
           <<"- Style: ", styleName>>,
           <<"- Design characteristics: ">> \o styleKeywords,
           <<"MATERIALS AND FINISHES:">>,
           <<"- Exterior wall: ", Lookup(MATERIAL_NAMES, req.materials.wall)>>,
           <<"- Roof type: ", Lookup(ROOF_NAMES, req.materials.roof)>>,
           <<"- Primary color: ", req.colors.primary>>,
           <<"- Secondary color: ", req.colors.secondary>>,
           <<"- Accent color: ", req.colors.accent>>,
           <<"ENVIRONMENT AND LIGHTING:">>,
           <<"- Time of day: ", Lookup(timeMap, req.environment.timeOfDay)>>,
           <<"- Season: ", Lookup(seasonMap, req.environment.season)>>,
           <<"- Weather: clear sky with soft natural shadows">>,
           <<"CAMERA AND COMPOSITION:">>,
           <<"- View angle: ", Lookup(cameraMap, req.camera.angle)>>,
           <<"- Lens: professional architectural photography, 24mm wide-angle equivalent">>,
           <<"- Focus: sharp throughout, architectural photography style">>,
           <<"QUALITY REQUIREMENTS:">>,
           <<"- Photorealistic quality">>,
           <<"- High detail on materials and textures">>,
           <<"- Professional architectural visualization">>,
           <<"- Natural landscaping with appropriate vegetation">>,
           <<"- Realistic shadows and reflections">>,
           <<"- Clean, modern presentation">> >>

\* The prompt as the sequence of its lines; a line is the sequence of the
\* template's literal pieces and interpolated values, in order.  An
\* interpolated number is its decimal string, an interpolated undefined is
\* the string "undefined".
buildPrompt(req) ==
    LET style == FindStyle(req.style)
        styleName == IF style = << >> THEN "Modern" ELSE style[1].name
        styleKeywords == IF style = << >> THEN << >> ELSE Join(style[1].keywords)
    IN  << <<"Photorealistic architectural exterior rendering of a ",
             styleName, " ", Lookup(buildingTypeMap, req.buildingType), ".">>,
           <<"BUILDING SPECIFICATIONS:">>,
           <<"- Number of floors: ", ToString(req.floors)>>,
           <<"- Total floor area: approximately ", ToString(req.totalArea), " square meters">>,
           <<"- Land area: approximately ", ToString(req.landArea), " square meters">>,
           <<"- Land shape: ", req.landShape>>,
           <<"ARCHITECTURAL STYLE:">>,
           <<"- Style: ", styleName>>,
           <<"- Design characteristics: ">> \o styleKeywords,
           <<"MATERIALS AND FINISHES:">>,
           <<"- Exterior wall: ", Lookup(MATERIAL_NAMES, req.materials.wall)>>,
           <<"- Roof type: ", Lookup(ROOF_NAMES, req.materials.roof)>>,
           <<"- Primary color: ", req.colors.primary>>,
           <<"- Secondary color: ", req.colors.secondary>>,
           <<"- Accent color: ", req.colors.accent>>,
           <<"ENVIRONMENT AND LIGHTING:">>,
           <<"- Time of day: ", Lookup(timeMap, req.environment.timeOfDay)>>,
           <<"- Season: ", Lookup(seasonMap, req.environment.season)>>,
           <<"- Weather: clear sky with soft natural shadows">>,
           <<"CAMERA AND COMPOSITION:">>,
           <<"- View angle: ", Lookup(cameraMap, req.camera.angle)>>,
           <<"- Lens: professional architectural photography, 24mm wide-angle equivalent">>,
           <<"- Focus: sharp throughout, architectural photography style">>,
           <<"QUALITY REQUIREMENTS:">>,
           <<"- Photorealistic quality">>,
           <<"- High detail on materials and textures">>,
           <<"- Professional architectural visualization">>,
           <<"- Natural landscaping with appropriate vegetation">>,
           <<"- Realistic shadows and reflections">>,
           <<"- Clean, modern presentation">> >>

buildNegativePrompt ==
    << "blurry, low quality, distorted, cartoon, anime, illustration,",
       "sketch, painting, unrealistic, fantasy, floating objects,",
       "people, cars, animals, text overlay, watermark, signature,",
       "unfinished construction, scaffolding, construction equipment,",
       "disproportionate, impossible architecture, physically impossible" >>

\* buildSummary without the 'building' case
buildSummaryNoBuilding(req) ==
    LET style == FindStyle(req.style)
    IN  << IF style = << >> THEN "modan" ELSE style[1].nameJa,
           "sutairu no", ToString(req.floors), "kaidate",
           IF req.buildingType = "house" THEN "juutaku"
           ELSE IF req.buildingType = "apartment" THEN "manshon"
           ELSE "tenpo",
           "(nobeyuka", ToString(req.totalArea), "m2)" >>

\* The summary as the sequence of the template's pieces.
buildSummary(req) ==
    LET style == FindStyle(req.style)
    IN  << IF style = << >> THEN "modan" ELSE style[1].nameJa,
           "sutairu no", ToString(req.floors), "kaidate",
           IF req.buildingType = "house" THEN "juutaku"
           ELSE IF req.buildingType = "apartment" THEN "manshon"
           ELSE IF req.buildingType = "building" THEN "biru"
           ELSE "tenpo",
           "(nobeyuka", ToString(req.totalArea), "m2)" >>

----------------------------------------------------------------------------
(* Availability predicates *)

\* isNanoBananaAvailable that tests another environment variable
isNanoBananaAvailableWrongKey(e) == e.GOOGLE_CLOUD_PROJECT_ID

\* lib/ai/nano-banana.ts: !!process.env.FAL_KEY
isNanoBananaAvailable(e) == e.FAL_KEY

\* lib/ai/imagen.ts
isImagen4Available(e) ==
    e.GOOGLE_CLOUD_PROJECT_ID /\ e.GOOGLE_APPLICATION_CREDENTIALS

\* Available that lists 'flux2' as available whatever the environment
AvailableFluxAlways(m, e) ==
    CASE m = "auto"        -> TRUE
      [] m = "nano-banana" -> isNanoBananaAvailable(e)
      [] m = "imagen4"     -> isImagen4Available(e)
      [] m = "flux2"       -> TRUE
      [] m = "gemini"      -> isNanoBananaAvailable(e)

\* the `available` column of getAvailableModels, lib/ai/index.ts
Available(m, e) ==
    CASE m = "auto"        -> TRUE
      [] m = "nano-banana" -> isNanoBananaAvailable(e)
      [] m = "imagen4"     -> isImagen4Available(e)
      [] m = "flux2"       -> e.FAL_KEY
      [] m = "gemini"      -> isNanoBananaAvailable(e)

----------------------------------------------------------------------------
(* Resolution tables of the provider clients *)

Size(w, h) == [width |-> w, height |-> h]

\* NanoBananaImageSize without the 'hd' case
NanoBananaImageSizeNoHd(resolution) ==
    CASE resolution = "4k" -> Size(3840, 2160)
      [] OTHER             -> Size(1280, 720)

\* nano-banana.ts getImageSize
NanoBananaImageSize(resolution) ==
    CASE resolution = "4k" -> Size(3840, 2160)
      [] resolution = "hd" -> Size(1920, 1080)
      [] OTHER             -> Size(1280, 720)

\* nano-banana.ts getResolution
NanoBananaResolution(resolution) ==
    CASE resolution = "4k" -> "4K"
      [] resolution = "hd" -> "2K"
      [] OTHER             -> "1K"

\* imagen.ts getImageSize
ImagenImageSize(resolution) ==
    CASE resolution = "4k" -> Size(3840, 2160)
      [] resolution = "hd" -> Size(1920, 1080)
      [] OTHER             -> Size(1280, 720)

\* imagen.ts getAspectRatio
ImagenAspectRatio(resolution) == "16:9"

\* flux.ts sizeMap
sizeMap ==
    [sd |-> Size(1024, 768), hd |-> Size(1536, 1024)] @@ ("4k" :> Size(2048, 1536))

\* flux.ts: sizeMap[request.options.resolution] || sizeMap.hd
FluxSize(resolution) ==
    IF resolution \in DOMAIN sizeMap THEN sizeMap[resolution] ELSE sizeMap.hd

----------------------------------------------------------------------------
(* Requests and provider answers *)

\* The requests generateImages is invoked with: the building of the
\* spec's example scenario, in two styles, with every combination of options.
Requests ==
    { [buildingType |-> "house", floors |-> 2, totalArea |-> 120,
       landArea |-> 200, landShape |-> "rectangle", style |-> st,
       materials |-> [wall |-> "wood", roof |-> "gable"],
       colors |-> [primary |-> "#F5F5F0", secondary |-> "#5C4033",
                   accent |-> "#E07B39"],
       environment |-> [timeOfDay |-> "morning", season |-> "spring"],
       camera |-> [angle |-> "front"],
       options |-> [count |-> c, resolution |-> r, model |-> m]] :
      st \in {"scandinavian", "luxury"}, c \in ImageCount,
      r \in Resolution, m \in AIModel }

\* width/height a fal.ai response image carries: absent (0), or the
\* provider's own figures
RespDims == {Size(0, 0), Size(1024, 576)}

\* How an awaited fetch settles:
\*   "throw"     fetch rejects (network failure)
\*   "notok"     a response with a non-success status
\*   "malformed" a success status whose body is not the expected JSON
\*   "ok"        a success status carrying n images
Responses ==
    { [kind |-> k, n |-> 0, dims |-> Size(0, 0)] :
        k \in {"throw", "notok", "malformed"} }
    \cup
    { [kind |-> "ok", n |-> n, dims |-> d] :
        n \in 0..MaxRespImages, d \in RespDims }

\* no fetch has settled yet
NoAnswer == [kind |-> "none", n |-> 0, dims |-> Size(0, 0)]

\* data.images of a fal.ai answer
FalImages(r) ==
    [i \in 1..r.n |-> [url |-> <<"https://fal.media/files/", i>>,
                       width |-> r.dims.width, height |-> r.dims.height]]

\* data.predictions of a Vertex AI answer
ImagenPredictions(r) ==
    [i \in 1..r.n |-> [bytesBase64Encoded |-> i, mimeType |-> "image/png"]]

----------------------------------------------------------------------------
(* Outbound requests *)

NANO_BANANA_URL == "https://fal.run/fal-ai/nano-banana-pro"

FLUX_URL == "https://fal.run/fal-ai/flux-pro/v1.1"

VERTEX_URL == "https://us-central1-aiplatform.googleapis.com/.../imagen-4.0-generate-001:predict"

\* the token endpoint google-auth-library posts to
GOOGLE_TOKEN_URL == "https://oauth2.googleapis.com/token"

\* a field the request body does not carry
NotSent == << >>

\* nano-banana.ts: the body of the POST to FAL_API_URL
NanoBananaRequest(req) ==
    [kind |-> "generate", endpoint |-> NANO_BANANA_URL,
     prompt |-> buildPrompt(req), negativePrompt |-> NotSent,
     count |-> req.options.count,
     resolution |-> NanoBananaResolution(req.options.resolution),
     aspectRatio |-> "16:9", imageSize |-> Size(0, 0)]

\* imagen.ts: the body of the POST to the predict endpoint
ImagenRequest(req) ==
    [kind |-> "generate", endpoint |-> VERTEX_URL,
     prompt |-> buildPrompt(req), negativePrompt |-> buildNegativePrompt,
     count |-> req.options.count,
     resolution |-> "",
     aspectRatio |-> ImagenAspectRatio(req.options.resolution),
     imageSize |-> Size(0, 0)]

\* FluxRequest that always asks for one image
FluxRequestOneImage(req) ==
    [kind |-> "generate", endpoint |-> FLUX_URL,
     prompt |-> buildPrompt(req), negativePrompt |-> buildNegativePrompt,
     count |-> 1,
     resolution |-> "", aspectRatio |-> "",
     imageSize |-> FluxSize(req.options.resolution)]

\* flux.ts: the body of the POST to FAL_API_URL
FluxRequest(req) ==
    [kind |-> "generate", endpoint |-> FLUX_URL,
     prompt |-> buildPrompt(req), negativePrompt |-> buildNegativePrompt,
     count |-> req.options.count,
     resolution |-> "", aspectRatio |-> "",
     imageSize |-> FluxSize(req.options.resolution)]

\* imagen.ts getAccessToken: client.getAccessToken() of google-auth-library
TokenRequest ==
    [kind |-> "auth", endpoint |-> GOOGLE_TOKEN_URL,
     prompt |-> NotSent, negativePrompt |-> NotSent, count |-> 0,
     resolution |-> "", aspectRatio |-> "", imageSize |-> Size(0, 0)]

----------------------------------------------------------------------------
(* Results of the provider clients (timeMs, a wall-clock reading, is left out) *)

\* NanoBananaResult that reports the requested model
NanoBananaResultEchoesModel(req, r) ==
    LET imageSize == NanoBananaImageSize(req.options.resolution)
        data == FalImages(r)
    IN  [images |-> [i \in 1..Len(data) |->
                        [url |-> data[i].url, thumbnailUrl |-> data[i].url,
                         width |-> IF data[i].width # 0 THEN data[i].width
                                   ELSE imageSize.width,
                         height |-> IF data[i].height # 0 THEN data[i].height
                                    ELSE imageSize.height]],
         prompt |-> buildPrompt(req),
         model |-> req.options.model]

\* NanoBananaResult whose fallback height is the tier's width
NanoBananaResultSwappedFallback(req, r) ==
    LET imageSize == NanoBananaImageSize(req.options.resolution)
        data == FalImages(r)
    IN  [images |-> [i \in 1..Len(data) |->
                        [url |-> data[i].url, thumbnailUrl |-> data[i].url,
                         width |-> IF data[i].width # 0 THEN data[i].width
                                   ELSE imageSize.width,
                         height |-> IF data[i].height # 0 THEN data[i].height
                                    ELSE imageSize.width]],
         prompt |-> buildPrompt(req),
         model |-> "nano-banana"]

\* nano-banana.ts: the value generateWithNanoBanana resolves with
NanoBananaResult(req, r) ==
    LET imageSize == NanoBananaImageSize(req.options.resolution)
        data == FalImages(r)
    IN  [images |-> [i \in 1..Len(data) |->
                        [url |-> data[i].url, thumbnailUrl |-> data[i].url,
                         width |-> IF data[i].width # 0 THEN data[i].width
                                   ELSE imageSize.width,
                         height |-> IF data[i].height # 0 THEN data[i].height
                                    ELSE imageSize.height]],
         prompt |-> buildPrompt(req),
         model |-> "nano-banana"]

\* imagen.ts: the value generateWithImagen resolves with
ImagenResult(req, r) ==
    LET imageSize == ImagenImageSize(req.options.resolution)
        data == ImagenPredictions(r)
        dataUrl(p) == <<"data:", p.mimeType, ";base64,", p.bytesBase64Encoded>>
    IN  [images |-> [i \in 1..Len(data) |->
                        [url |-> dataUrl(data[i]), thumbnailUrl |-> dataUrl(data[i]),
                         width |-> imageSize.width, height |-> imageSize.height]],
         prompt |-> buildPrompt(req),
         model |-> "imagen4"]

\* flux.ts: the value generateWithFlux resolves with
FluxResult(req, r) ==
    LET data == FalImages(r)
    IN  [images |-> [i \in 1..Len(data) |->
                        [url |-> data[i].url, thumbnailUrl |-> data[i].url,
                         width |-> data[i].width, height |-> data[i].height]],
         prompt |-> buildPrompt(req),
         model |-> "flux2"]

----------------------------------------------------------------------------
(* Error messages *)

ERR_NANO_NOT_CONFIGURED == "Nano Banana Pro is not configured. Please set FAL_KEY."

ERR_IMAGEN_NOT_CONFIGURED == "Imagen 4 is not configured. Please set GOOGLE_CLOUD_PROJECT_ID and GOOGLE_APPLICATION_CREDENTIALS."

ERR_FAL_KEY == "FAL_KEY is not configured"

ERR_PROJECT_ID == "GOOGLE_CLOUD_PROJECT_ID is not set"

ERR_CREDENTIALS == "GOOGLE_APPLICATION_CREDENTIALS is not set"

ERR_AUTH == "Google Cloud authentication failed"

ERR_NANO_API == "Nano Banana Pro API error: ${response.status} - ${error}"

ERR_IMAGEN_API == "Imagen 4 API error: ${response.status} ${response.statusText}"

ERR_FLUX_API == "FLUX API error: ${response.status} - ${error}"

\* what the runtime throws when fetch rejects
ERR_FETCH == "TypeError: fetch failed"

\* what the runtime throws when response.json() rejects or data.images /
\* data.predictions is not an array
ERR_MALFORMED == "TypeError or SyntaxError reading the response body"

\* the environment variables whose names occur in a message
SettingsNamed(msg) ==
    CASE msg = ERR_NANO_NOT_CONFIGURED -> {"FAL_KEY"}
      [] msg = ERR_IMAGEN_NOT_CONFIGURED ->
            {"GOOGLE_CLOUD_PROJECT_ID", "GOOGLE_APPLICATION_CREDENTIALS"}
      [] msg = ERR_FAL_KEY -> {"FAL_KEY"}
      [] msg = ERR_PROJECT_ID -> {"GOOGLE_CLOUD_PROJECT_ID"}
      [] msg = ERR_CREDENTIALS -> {"GOOGLE_APPLICATION_CREDENTIALS"}
      [] OTHER -> {}

----------------------------------------------------------------------------
(* The model selector, lib/ai/index.ts generateImages *)

Delegate(c) == [throw |-> NoError, client |-> c]

Throw(msg) == [throw |-> msg, client |-> "none"]

\* SelectClient with Imagen 4 tried before Nano Banana under "auto"
SelectClientImagenFirst(m, e) ==
    IF m = "auto"
    THEN IF isImagen4Available(e) THEN Delegate("imagen4")
         ELSE IF isNanoBananaAvailable(e) THEN Delegate("nano-banana")
         ELSE Delegate("flux2")
    ELSE CASE m = "nano-banana" ->
                IF ~isNanoBananaAvailable(e) THEN Throw(ERR_NANO_NOT_CONFIGURED)
                ELSE Delegate("nano-banana")
           [] m = "imagen4" ->
                IF ~isImagen4Available(e) THEN Throw(ERR_IMAGEN_NOT_CONFIGURED)
                ELSE Delegate("imagen4")
           [] m = "flux2" -> Delegate("flux2")
           [] m = "gemini" -> Delegate("nano-banana")
           [] OTHER -> Delegate("nano-banana")

\* SelectClient without the 'flux2' case, so that it takes the default branch
SelectClientFluxToDefault(m, e) ==
    IF m = "auto"
    THEN IF isNanoBananaAvailable(e) THEN Delegate("nano-banana")
         ELSE IF isImagen4Available(e) THEN Delegate("imagen4")
         ELSE Delegate("flux2")
    ELSE CASE m = "nano-banana" ->
                IF ~isNanoBananaAvailable(e) THEN Throw(ERR_NANO_NOT_CONFIGURED)
                ELSE Delegate("nano-banana")
           [] m = "imagen4" ->
                IF ~isImagen4Available(e) THEN Throw(ERR_IMAGEN_NOT_CONFIGURED)
                ELSE Delegate("imagen4")
           [] m = "gemini" -> Delegate("nano-banana")
           [] OTHER -> Delegate("nano-banana")

\* SelectClient that throws under "auto" when nothing is available
SelectClientNoFallback(m, e) ==
    IF m = "auto"
    THEN IF isNanoBananaAvailable(e) THEN Delegate("nano-banana")
         ELSE IF isImagen4Available(e) THEN Delegate("imagen4")
         ELSE Throw(ERR_FAL_KEY)
    ELSE CASE m = "nano-banana" ->
                IF ~isNanoBananaAvailable(e) THEN Throw(ERR_NANO_NOT_CONFIGURED)
                ELSE Delegate("nano-banana")
           [] m = "imagen4" ->
                IF ~isImagen4Available(e) THEN Throw(ERR_IMAGEN_NOT_CONFIGURED)
                ELSE Delegate("imagen4")
           [] m = "flux2" -> Delegate("flux2")
           [] m = "gemini" -> Delegate("nano-banana")
           [] OTHER -> Delegate("nano-banana")

\* SelectClient with an availability check on the 'gemini' path
SelectClientGeminiChecked(m, e) ==
    IF m = "auto"
    THEN IF isNanoBananaAvailable(e) THEN Delegate("nano-banana")
         ELSE IF isImagen4Available(e) THEN Delegate("imagen4")
         ELSE Delegate("flux2")
    ELSE CASE m = "nano-banana" ->
                IF ~isNanoBananaAvailable(e) THEN Throw(ERR_NANO_NOT_CONFIGURED)
                ELSE Delegate("nano-banana")
           [] m = "imagen4" ->
                IF ~isImagen4Available(e) THEN Throw(ERR_IMAGEN_NOT_CONFIGURED)
                ELSE Delegate("imagen4")
           [] m = "flux2" -> Delegate("flux2")
           [] m = "gemini" ->
                IF ~isNanoBananaAvailable(e) THEN Throw(ERR_NANO_NOT_CONFIGURED)
                ELSE Delegate("nano-banana")
           [] OTHER -> Delegate("nano-banana")

\* which client generateImages delegates to, or the error it throws itself
SelectClient(m, e) ==
    IF m = "auto"
    THEN IF isNanoBananaAvailable(e) THEN Delegate("nano-banana")
         ELSE IF isImagen4Available(e) THEN Delegate("imagen4")
         ELSE Delegate("flux2")
    ELSE CASE m = "nano-banana" ->
                IF ~isNanoBananaAvailable(e) THEN Throw(ERR_NANO_NOT_CONFIGURED)
                ELSE Delegate("nano-banana")
           [] m = "imagen4" ->
                IF ~isImagen4Available(e) THEN Throw(ERR_IMAGEN_NOT_CONFIGURED)
                ELSE Delegate("imagen4")
           [] m = "flux2" -> Delegate("flux2")
           [] m = "gemini" -> Delegate("nano-banana")
           [] OTHER -> Delegate("nano-banana")

\* AfterClientThrows with a retry of the client that threw
AfterClientThrowsRetry(m, client) == [pc |-> "client", next |-> client]

\* AfterClientThrows with a fall-through to the next provider under "auto"
AfterClientThrowsFallThrough(m, client) ==
    IF m = "auto" /\ client = "nano-banana"
    THEN [pc |-> "client", next |-> "imagen4"]
    ELSE IF m = "auto" /\ client = "imagen4"
    THEN [pc |-> "client", next |-> "flux2"]
    ELSE [pc |-> "rejected", next |-> "none"]

\* `return generateWithX(request)` with no try/catch around it: a client
\* that throws makes generateImages reject, whatever the requested model
AfterClientThrows(m, client) == [pc |-> "rejected", next |-> "none"]

----------------------------------------------------------------------------
(* State machine *)

Init ==
    /\ env \in [FAL_KEY : BOOLEAN, GOOGLE_CLOUD_PROJECT_ID : BOOLEAN,
                GOOGLE_APPLICATION_CREDENTIALS : BOOLEAN]
    /\ request \in Requests
    /\ pc = "dispatch"
    /\ invoked = << >>
    /\ calls = << >>
    /\ result = NoResult
    /\ error = NoError
    /\ answer = NoAnswer
    /\ response = NoResponse
    /\ parked = << >>
    /\ Elsewhere

Last(s) == s[Len(s)]

\* a throw inside the client that is running
ClientThrows(msg) ==
    LET a == AfterClientThrows(request.options.model, Last(invoked))
    IN  /\ error' = msg
        /\ pc' = a.pc
        /\ invoked' = IF a.pc = "client" THEN Append(invoked, a.next) ELSE invoked
        /\ UNCHANGED <<env, request, calls, result, outside>>

\* the client that is running sends a request and awaits the answer
ClientSends(call, at) ==
    /\ calls' = Append(calls, call)
    /\ pc' = at
    /\ UNCHANGED <<env, request, invoked, result, error, outside>>

\* the client that is running returns
ClientReturns(res) ==
    /\ result' = res
    /\ pc' = "resolved"
    /\ UNCHANGED <<env, request, invoked, calls, error, outside>>

\* index.ts generateImages, up to the call of the provider client
GenerateImages ==
    /\ pc = "dispatch"
    /\ LET sel == SelectClient(request.options.model, env)
       IN  IF sel.throw # NoError
           THEN /\ error' = sel.throw
                /\ pc' = "rejected"
                /\ UNCHANGED <<env, request, invoked, calls, result, answer, outside>>
           ELSE /\ invoked' = Append(invoked, sel.client)
                /\ pc' = "client"
                /\ UNCHANGED <<env, request, calls, result, error, answer, outside>>

\* nano-banana.ts generateWithNanoBanana, up to `await fetch`
NanoBananaStart ==
    /\ pc = "client"
    /\ UNCHANGED answer
    /\ Last(invoked) = "nano-banana"
    /\ IF ~env.FAL_KEY
       THEN ClientThrows(ERR_FAL_KEY)
       ELSE ClientSends(NanoBananaRequest(request), "nano_fetch")

\* nano-banana.ts generateWithNanoBanana, from the settled fetch on
NanoBananaSettle ==
    /\ pc = "nano_fetch"
    /\ \E r \in Responses :
         /\ answer' = r
         /\ CASE r.kind = "throw" -> ClientThrows(ERR_FETCH)
              [] r.kind = "notok" -> ClientThrows(ERR_NANO_API)
              [] r.kind = "malformed" -> ClientThrows(ERR_MALFORMED)
              [] r.kind = "ok" -> ClientReturns(NanoBananaResult(request, r))

\* imagen.ts generateWithImagen and getAccessToken, up to the first await
ImagenStart ==
    /\ pc = "client"
    /\ UNCHANGED answer
    /\ Last(invoked) = "imagen4"
    /\ IF ~env.GOOGLE_CLOUD_PROJECT_ID
       THEN ClientThrows(ERR_PROJECT_ID)
       ELSE IF ~env.GOOGLE_APPLICATION_CREDENTIALS
       THEN ClientThrows(ERR_CREDENTIALS)
       ELSE /\ pc' = "imagen_auth"
            /\ UNCHANGED <<env, request, invoked, calls, result, error, outside>>

\* imagen.ts getAccessToken: `await auth.getClient()` settles; on success
\* client.getAccessToken() asks Google for a token
ImagenAuth ==
    /\ pc = "imagen_auth"
    /\ UNCHANGED answer
    /\ \E loaded \in BOOLEAN :
         IF ~loaded
         THEN ClientThrows(ERR_AUTH)
         ELSE ClientSends(TokenRequest, "imagen_token")

\* imagen.ts: `await client.getAccessToken()` settles; with a token the
\* predict request is sent
ImagenToken ==
    /\ pc = "imagen_token"
    /\ UNCHANGED answer
    /\ \E token \in BOOLEAN :
         IF ~token
         THEN ClientThrows(ERR_AUTH)
         ELSE ClientSends(ImagenRequest(request), "imagen_fetch")

\* imagen.ts generateWithImagen, from the settled fetch on
ImagenSettle ==
    /\ pc = "imagen_fetch"
    /\ \E r \in Responses :
         /\ answer' = r
         /\ CASE r.kind = "throw" -> ClientThrows(ERR_FETCH)
              [] r.kind = "notok" -> ClientThrows(ERR_IMAGEN_API)
              [] r.kind = "malformed" -> ClientThrows(ERR_MALFORMED)
              [] r.kind = "ok" -> ClientReturns(ImagenResult(request, r))

\* FluxStart without the check of FAL_KEY
FluxStartNoKeyCheck ==
    /\ pc = "client"
    /\ UNCHANGED answer
    /\ Last(invoked) = "flux2"
    /\ ClientSends(FluxRequest(request), "flux_fetch")

\* flux.ts generateWithFlux, up to `await fetch`
FluxStart ==
    /\ pc = "client"
    /\ UNCHANGED answer
    /\ Last(invoked) = "flux2"
    /\ IF ~env.FAL_KEY
       THEN ClientThrows(ERR_FAL_KEY)
       ELSE ClientSends(FluxRequest(request), "flux_fetch")

\* flux.ts generateWithFlux, from the settled fetch on
FluxSettle ==
    /\ pc = "flux_fetch"
    /\ \E r \in Responses :
         /\ answer' = r
         /\ CASE r.kind = "throw" -> ClientThrows(ERR_FETCH)
              [] r.kind = "notok" -> ClientThrows(ERR_FLUX_API)
              [] r.kind = "malformed" -> ClientThrows(ERR_MALFORMED)
              [] r.kind = "ok" -> ClientReturns(FluxResult(request, r))

Next ==
    \/ GenerateImages
    \/ NanoBananaStart
    \/ NanoBananaSettle
    \/ ImagenStart
    \/ ImagenAuth
    \/ ImagenToken
    \/ ImagenSettle
    \/ FluxStart
    \/ FluxSettle

Spec == Init /\ [][Next]_vars

----------------------------------------------------------------------------
(* The prompt builder called on its own *)

\* values outside the closed enums, as a defective caller could pass them
BadStyle == "gothic"

BadBuildingType == "castle"

BadWall == "glass"

BadRoof == "dome"

BadTime == "dusk"

BadSeason == "monsoon"

BadAngle == "drone"

\* <<wall, roof, timeOfDay, season, angle>>: every value of each enum and
\* one value outside it, one field varied at a time
Variations ==
    { <<w, "gable", "morning", "spring", "front">> : w \in WallMaterial \cup {BadWall} }
    \cup { <<"wood", r, "morning", "spring", "front">> : r \in RoofType \cup {BadRoof} }
    \cup { <<"wood", "gable", t, "spring", "front">> : t \in TimeOfDay \cup {BadTime} }
    \cup { <<"wood", "gable", "morning", x, "front">> : x \in Season \cup {BadSeason} }
    \cup { <<"wood", "gable", "morning", "spring", a>> : a \in CameraAngle \cup {BadAngle} }

ColorTriples ==
    { [primary |-> "#F5F5F0", secondary |-> "#5C4033", accent |-> "#E07B39"],
      [primary |-> "white", secondary |-> "navy", accent |-> "gold"] }

\* the requests the builder functions are called with
PromptRequests ==
    { [buildingType |-> bt, floors |-> fl, totalArea |-> ta,
       landArea |-> 200, landShape |-> "rectangle", style |-> st,
       materials |-> [wall |-> v[1], roof |-> v[2]],
       colors |-> col,
       environment |-> [timeOfDay |-> v[3], season |-> v[4]],
       camera |-> [angle |-> v[5]],
       options |-> [count |-> 1, resolution |-> "hd", model |-> "auto"]] :
      bt \in BuildingType \cup {BadBuildingType},
      fl \in {1, 3}, ta \in {50, 120},
      st \in ArchitecturalStyle \cup {BadStyle},
      v \in Variations, col \in ColorTriples }

PromptInit ==
    /\ env = [FAL_KEY |-> FALSE, GOOGLE_CLOUD_PROJECT_ID |-> FALSE,
              GOOGLE_APPLICATION_CREDENTIALS |-> FALSE]
    /\ request \in PromptRequests
    /\ pc = "builder"
    /\ invoked = << >>
    /\ calls = << >>
    /\ result = NoResult
    /\ error = NoError
    /\ answer = NoAnswer
    /\ response = NoResponse
    /\ parked = << >>
    /\ Elsewhere

\* a builder function returns
BuilderReturns(res, at) ==
    /\ pc = "builder"
    /\ result' = res
    /\ pc' = at
    /\ UNCHANGED <<env, request, invoked, calls, error, answer, outside>>

\* prompt-builder.ts buildPrompt
BuildPrompt == BuilderReturns([prompt |-> buildPrompt(request)], "prompt_built")

\* prompt-builder.ts buildNegativePrompt
BuildNegativePrompt ==
    BuilderReturns([negativePrompt |-> buildNegativePrompt], "negative_built")

\* prompt-builder.ts buildSummary
BuildSummary == BuilderReturns([summary |-> buildSummary(request)], "summary_built")

PromptNext ==
    \/ BuildPrompt
    \/ BuildNegativePrompt
    \/ BuildSummary

PromptSpec == PromptInit /\ [][PromptNext]_vars

----------------------------------------------------------------------------
(* POST /api/generate, app/api/generate/route.ts *)

\* a request body that is not JSON
NotJson == [notJson |-> TRUE]

\* what request.json() throws on such a body
ERR_BODY == "SyntaxError: Unexpected token in JSON"

\* SchemaIssues that accepts any number as options.count
SchemaIssuesAnyCount(b) ==
    {f \in {"buildingType", "floors", "totalArea", "landArea", "landShape",
            "style", "materials.wall", "materials.roof",
            "environment.timeOfDay", "environment.season", "camera.angle",
            "options.count", "options.resolution", "options.model"} :
        CASE f = "buildingType" -> b.buildingType \notin BuildingType
          [] f = "floors" -> ~(b.floors >= 1 /\ b.floors <= 10)
          [] f = "totalArea" -> ~(b.totalArea >= 50 /\ b.totalArea <= 1000)
          [] f = "landArea" -> ~(b.landArea >= 50 /\ b.landArea <= 2000)
          [] f = "landShape" -> b.landShape \notin LandShape
          [] f = "style" -> b.style \notin ArchitecturalStyle
          [] f = "materials.wall" -> b.materials.wall \notin WallMaterial
          [] f = "materials.roof" -> b.materials.roof \notin RoofType
          [] f = "environment.timeOfDay" -> b.environment.timeOfDay \notin TimeOfDay
          [] f = "environment.season" -> b.environment.season \notin Season
          [] f = "camera.angle" -> b.camera.angle \notin CameraAngle
          [] f = "options.count" -> FALSE
          [] f = "options.resolution" -> b.options.resolution \notin Resolution
          [] f = "options.model" -> b.options.model \notin AIModel}

\* GenerationSchema.safeParse(body).error.issues: the paths of the fields
\* the schema refuses (a body here carries every field, with a number or a
\* string where the schema wants one)
SchemaIssues(b) ==
    {f \in {"buildingType", "floors", "totalArea", "landArea", "landShape",
            "style", "materials.wall", "materials.roof",
            "environment.timeOfDay", "environment.season", "camera.angle",
            "options.count", "options.resolution", "options.model"} :
        CASE f = "buildingType" -> b.buildingType \notin {"house", "apartment", "building", "shop"}
          [] f = "floors" -> ~(b.floors >= 1 /\ b.floors <= 10)
          [] f = "totalArea" -> ~(b.totalArea >= 50 /\ b.totalArea <= 1000)
          [] f = "landArea" -> ~(b.landArea >= 50 /\ b.landArea <= 2000)
          [] f = "landShape" ->
                b.landShape \notin {"rectangle", "square", "L-shape", "flag", "irregular"}
          [] f = "style" ->
                b.style \notin {"modern_minimal", "japanese_modern", "scandinavian",
                                "industrial", "luxury", "mediterranean", "american"}
          [] f = "materials.wall" ->
                b.materials.wall \notin {"siding", "concrete", "tile", "wood", "metal", "stucco"}
          [] f = "materials.roof" ->
                b.materials.roof \notin {"flat", "gable", "hip", "shed", "gambrel"}
          [] f = "environment.timeOfDay" ->
                b.environment.timeOfDay \notin {"morning", "noon", "evening", "night"}
          [] f = "environment.season" ->
                b.environment.season \notin {"spring", "summer", "autumn", "winter"}
          [] f = "camera.angle" ->
                b.camera.angle \notin {"front", "angle45", "aerial", "birdseye", "closeup", "distant"}
          [] f = "options.count" -> b.options.count \notin {1, 4}
          [] f = "options.resolution" -> b.options.resolution \notin {"sd", "hd", "4k"}
          [] f = "options.model" ->
                b.options.model \notin {"auto", "imagen4", "flux2", "gemini", "nano-banana"}}

\* a body the schema accepts, in which InvalidBodies changes one field
BaseBody ==
    [buildingType |-> "house", floors |-> 2, totalArea |-> 120,
     landArea |-> 200, landShape |-> "rectangle", style |-> "scandinavian",
     materials |-> [wall |-> "wood", roof |-> "gable"],
     colors |-> [primary |-> "#F5F5F0", secondary |-> "#5C4033",
                 accent |-> "#E07B39"],
     environment |-> [timeOfDay |-> "morning", season |-> "spring"],
     camera |-> [angle |-> "front"],
     options |-> [count |-> 1, resolution |-> "hd", model |-> "auto"]]

\* bodies with one field the schema refuses
InvalidBodies ==
    { [BaseBody EXCEPT !.buildingType = BadBuildingType],
      [BaseBody EXCEPT !.floors = 0],
      [BaseBody EXCEPT !.floors = 11],
      [BaseBody EXCEPT !.totalArea = 49],
      [BaseBody EXCEPT !.totalArea = 1001],
      [BaseBody EXCEPT !.landArea = 49],
      [BaseBody EXCEPT !.landArea = 2001],
      [BaseBody EXCEPT !.landShape = "circle"],
      [BaseBody EXCEPT !.style = BadStyle],
      [BaseBody EXCEPT !.materials.wall = BadWall],
      [BaseBody EXCEPT !.materials.roof = BadRoof],
      [BaseBody EXCEPT !.environment.timeOfDay = BadTime],
      [BaseBody EXCEPT !.environment.season = BadSeason],
      [BaseBody EXCEPT !.camera.angle = BadAngle],
      [BaseBody EXCEPT !.options.resolution = "8k"] }
    \cup { [BaseBody EXCEPT !.options.count = c, !.options.model = m] :
             c \in {0, 2, 3, 5}, m \in AIModel }
    \cup { [BaseBody EXCEPT !.options.model = "dalle", !.options.count = c] :
             c \in ImageCount }

\* the bodies POSTed: the requests of Spec, bodies the schema refuses, and
\* a body that is not JSON
Bodies == Requests \cup InvalidBodies \cup {NotJson}

\* the 400 of a refused body
ValidationResponse(b) ==
    [status |-> 400,
     body |-> [error |-> "Invalid request parameters", details |-> SchemaIssues(b)]]

\* ErrorResponse that reports every error as unknown
ErrorResponseUnknown(msg) ==
    [status |-> 500,
     body |-> [error |-> "Generation failed", message |-> "Unknown error"]]

\* the 500 of the catch block
ErrorResponse(msg) ==
    [status |-> 500,
     body |-> [error |-> "Generation failed", message |-> msg]]

\* the GenerationResult returned with status 200 (generationTimeMs and
\* createdAt, clock readings, are left out)
CompletedResponse(req, res) ==
    [status |-> 200,
     body |-> [id |-> "crypto.randomUUID()", userId |-> "anonymous",
               status |-> "completed", prompt |-> res.prompt,
               parameters |-> req, images |-> res.images,
               modelUsed |-> res.model, isFavorite |-> FALSE]]

RouteInit ==
    /\ env \in [FAL_KEY : BOOLEAN, GOOGLE_CLOUD_PROJECT_ID : BOOLEAN,
                GOOGLE_APPLICATION_CREDENTIALS : BOOLEAN]
    /\ request \in Bodies
    /\ pc = "post"
    /\ invoked = << >>
    /\ calls = << >>
    /\ result = NoResult
    /\ error = NoError
    /\ answer = NoAnswer
    /\ response = NoResponse
    /\ parked = << >>
    /\ Elsewhere

\* the handler returns a response
Responds(r) ==
    /\ response' = r
    /\ pc' = "responded"
    /\ UNCHANGED <<env, request, invoked, calls, result, error, answer, parked, page, database>>

\* route.ts POST: `await request.json()` settles
PostParse ==
    /\ pc = "post"
    /\ IF request = NotJson
       THEN Responds(ErrorResponse(ERR_BODY))
       ELSE /\ pc' = "validate"
            /\ UNCHANGED <<env, request, invoked, calls, result, error, answer, outside>>

\* route.ts POST: safeParse, then the call of generateImages
PostValidate ==
    /\ pc = "validate"
    /\ IF SchemaIssues(request) # {}
       THEN Responds(ValidationResponse(request))
       ELSE /\ pc' = "dispatch"
            /\ UNCHANGED <<env, request, invoked, calls, result, error, answer, outside>>

\* route.ts POST: `await generateImages(...)` settles
PostRespond ==
    \/ /\ pc = "resolved"
       /\ Responds(CompletedResponse(request, result))
    \/ /\ pc = "rejected"
       /\ Responds(ErrorResponse(error))

RouteNext ==
    \/ PostParse
    \/ PostValidate
    \/ Next
    \/ PostRespond

RouteSpec == RouteInit /\ [][RouteNext]_vars

----------------------------------------------------------------------------
(* Concurrent invocations of generateImages *)

\* JavaScript runs one invocation at a time and changes over only where the
\* running one awaits or has finished.  The variables request .. answer are
\* the locals of the running invocation; parked holds the locals of the
\* others; env is the process environment all of them read.

\* the locals of the running invocation
Context ==
    [request |-> request, pc |-> pc, invoked |-> invoked, calls |-> calls,
     result |-> result, error |-> error, answer |-> answer]

\* the locals of an invocation that has not started
Fresh(req) ==
    [request |-> req, pc |-> "dispatch", invoked |-> << >>, calls |-> << >>,
     result |-> NoResult, error |-> NoError, answer |-> NoAnswer]

\* the requests of the concurrent invocations
ConcRequests ==
    { [BaseBody EXCEPT !.options = [count |-> 1, resolution |-> "sd", model |-> "auto"]],
      [BaseBody EXCEPT !.style = "luxury",
                       !.options = [count |-> 4, resolution |-> "hd", model |-> "imagen4"]],
      [BaseBody EXCEPT !.style = "luxury", !.floors = 3,
                       !.options = [count |-> 4, resolution |-> "4k", model |-> "flux2"]] }

\* where the running invocation can be left: not between generateImages
\* and the synchronous start of the client it calls
Suspended == pc # "client"

\* Resume with the result kept in a variable all invocations share
ResumeSharedResult(saved, current) == [saved EXCEPT !.result = current.result]

\* the locals an invocation continues with: its own, as it left them
Resume(saved, current) == saved

ConcInit ==
    /\ env \in [FAL_KEY : BOOLEAN, GOOGLE_CLOUD_PROJECT_ID : BOOLEAN,
                GOOGLE_APPLICATION_CREDENTIALS : BOOLEAN]
    /\ request \in ConcRequests
    /\ pc = "dispatch"
    /\ invoked = << >>
    /\ calls = << >>
    /\ result = NoResult
    /\ error = NoError
    /\ answer = NoAnswer
    /\ response = NoResponse
    /\ parked \in [1..NumParked -> {Fresh(r) : r \in ConcRequests}]
    /\ Elsewhere

\* the event loop continues another invocation
Switch ==
    /\ Suspended
    /\ \E i \in DOMAIN parked :
         LET c == Resume(parked[i], Context)
         IN  /\ parked' = [parked EXCEPT ![i] = Context]
             /\ request' = c.request
             /\ pc' = c.pc
             /\ invoked' = c.invoked
             /\ calls' = c.calls
             /\ result' = c.result
             /\ error' = c.error
             /\ answer' = c.answer
             /\ UNCHANGED <<env, response, page, database>>

ConcNext ==
    \/ Next
    \/ Switch

ConcSpec == ConcInit /\ [][ConcNext]_vars

----------------------------------------------------------------------------
(* The home page, app/page.tsx, and components/features/ImagePreview.tsx *)

\* `.slice(0, 10)` of handleGenerated
HISTORY_LIMIT == 10

\* the GenerationResult the form hands to onGenerated: the route gives it a
\* fresh id (crypto.randomUUID) and isFavorite false; n is its image count
NewResult(n) ==
    [id |-> Len(generated) + 1, images |-> [i \in 1..n |-> i], isFavorite |-> FALSE]

\* arr.slice(0, n)
Slice(arr, n) == SubSeq(arr, 1, IF Len(arr) < n THEN Len(arr) ELSE n)

\* handleGenerated that appends the new result at the end of history
HandleGeneratedAppends(newResult) ==
    /\ result' = newResult
    /\ history' = Slice(history \o <<newResult>>, HISTORY_LIMIT)
    /\ generated' = Append(generated, newResult)
    /\ UNCHANGED <<env, request, pc, invoked, calls, error, answer, response,
                   parked, currentIndex, isLoading, database>>

\* page.tsx handleGenerated: its two state updates
SetResultAndHistory(newResult) ==
    /\ result' = newResult
    /\ history' = Slice(<<newResult>> \o history, HISTORY_LIMIT)
    /\ generated' = Append(generated, newResult)

\* page.tsx handleGenerated
HandleGenerated(newResult) ==
    /\ SetResultAndHistory(newResult)
    /\ UNCHANGED <<env, request, pc, invoked, calls, error, answer, response,
                   parked, currentIndex, isLoading, database>>

\* page.tsx: the click on a history item, `setResult(item)`
SelectHistory ==
    \E i \in DOMAIN history :
       /\ result' = history[i]
       /\ UNCHANGED <<env, request, pc, invoked, calls, error, answer, response,
                      parked, page, database>>

\* `{ ...item, isFavorite: !item.isFavorite }`
Flip(item) == [item EXCEPT !.isFavorite = ~item.isFavorite]

\* handleFavorite that flips the history entries only
AfterFavoriteHistoryOnly(id, r, h) ==
    [result |-> r,
     history |-> [i \in DOMAIN h |-> IF h[i].id = id THEN Flip(h[i]) ELSE h[i]]]

\* page.tsx handleFavorite: the two functional updates, of `result` and of
\* `history`
AfterFavorite(id, r, h) ==
    [result |-> IF r # NoResult /\ r.id = id THEN Flip(r) ELSE r,
     history |-> [i \in DOMAIN h |-> IF h[i].id = id THEN Flip(h[i]) ELSE h[i]]]

\* page.tsx handleFavorite
HandleFavorite(id) ==
    /\ result' = AfterFavorite(id, result, history).result
    /\ history' = AfterFavorite(id, result, history).history
    /\ UNCHANGED <<env, request, pc, invoked, calls, error, answer, response,
                   parked, currentIndex, generated, isLoading, database>>

\* ImagePreview.tsx: the component renders the preview, not the placeholder
Previewing == result # NoResult /\ Len(result.images) # 0

\* ImagePreview.tsx: `hasMultiple`, which the navigation is rendered under
hasMultiple == Previewing /\ Len(result.images) > 1

\* ImagePreview.tsx: `result.images[currentIndex]` is an element (indices
\* of the model start at 1, currentIndex at 0 as in the source)
CurrentImageDefined == currentIndex + 1 \in DOMAIN result.images

SetCurrentIndex(idx) ==
    /\ currentIndex' = idx
    /\ UNCHANGED <<env, request, pc, invoked, calls, result, error, answer,
                   response, parked, history, generated, isLoading, database>>

\* ImagePreview.tsx handlePrev
HandlePrev ==
    /\ hasMultiple /\ CurrentImageDefined
    /\ SetCurrentIndex(IF currentIndex = 0 THEN Len(result.images) - 1
                       ELSE currentIndex - 1)

\* ImagePreview.tsx handleNext
HandleNext ==
    /\ hasMultiple /\ CurrentImageDefined
    /\ SetCurrentIndex(IF currentIndex = Len(result.images) - 1 THEN 0
                       ELSE currentIndex + 1)

\* ImagePreview.tsx: the click on a thumbnail
SelectThumbnail ==
    /\ hasMultiple /\ CurrentImageDefined
    /\ \E idx \in 0..(Len(result.images) - 1) : SetCurrentIndex(idx)

\* ImagePreview.tsx: the favourite button, `onFavorite?.(result.id)`
ClickFavorite ==
    /\ Previewing /\ CurrentImageDefined
    /\ HandleFavorite(result.id)

\* no request is being served
NoRequest == [none |-> TRUE]

PageInit ==
    /\ env = [FAL_KEY |-> FALSE, GOOGLE_CLOUD_PROJECT_ID |-> FALSE,
              GOOGLE_APPLICATION_CREDENTIALS |-> FALSE]
    /\ request = NoRequest
    /\ pc = "page"
    /\ invoked = << >>
    /\ calls = << >>
    /\ result = NoResult
    /\ error = NoError
    /\ answer = NoAnswer
    /\ response = NoResponse
    /\ parked = << >>
    /\ Elsewhere

\* a generation of the form succeeds with one image; a history item is
\* selected; handleFavorite is called with the id of some result, or with
\* an unknown id
PageNext ==
    \/ Len(generated) < MaxGenerations /\ HandleGenerated(NewResult(1))
    \/ SelectHistory
    \/ \E id \in 0..Len(generated) : HandleFavorite(id)

PageSpec == PageInit /\ [][PageNext]_vars

\* a generation of the form succeeds with 0, 1 or 4 images (the route
\* passes on whatever image list the provider client returned), or the
\* preview is operated
PreviewNext ==
    \/ Len(generated) < MaxPreviewed
         /\ \E n \in {0, 1, 4} : HandleGenerated(NewResult(n))
    \/ SelectHistory
    \/ HandlePrev
    \/ HandleNext
    \/ SelectThumbnail
    \/ ClickFavorite

PreviewSpec == PageInit /\ [][PreviewNext]_vars

----------------------------------------------------------------------------
(* decrement_credits, supabase/schema.sql *)

\* the values of p_amount (an INTEGER, with nothing that restricts its sign)
Amounts == {-2, 0, 1, 2, 5}

\* no current_credits was returned
NoCredits == -1000

\* the calls, each in its own transaction, before any of them has run
DbInit ==
    /\ env = [FAL_KEY |-> FALSE, GOOGLE_CLOUD_PROJECT_ID |-> FALSE,
              GOOGLE_APPLICATION_CREDENTIALS |-> FALSE]
    /\ request = NoRequest
    /\ pc = "database"
    /\ invoked = << >>
    /\ calls = << >>
    /\ result = NoResult
    /\ error = NoError
    /\ answer = NoAnswer
    /\ response = NoResponse
    /\ parked = << >>
    /\ history = << >>
    /\ currentIndex = 0
    /\ generated = << >>
    /\ isLoading = FALSE
    /\ credits \in 0..MaxCredits
    /\ creditsBefore = credits
    /\ sessions \in [1..NumCalls ->
                        {[p_amount |-> a, at |-> "called", seen |-> NoCredits,
                          current_credits |-> NoCredits] : a \in Amounts}]

\* the row of the user is locked by a transaction that updated it and has
\* not ended
RowLocked == \E s \in DOMAIN sessions : sessions[s].at = "updated"

DbFrame ==
    UNCHANGED <<env, request, pc, invoked, calls, result, error, answer, response,
                parked, page, creditsBefore>>

\* UPDATE users SET credits = credits - p_amount WHERE id = p_user_id AND
\* credits >= p_amount RETURNING credits INTO current_credits: the statement
\* waits for the row lock and evaluates its condition on the row as last
\* committed
DecrementUpdate(s) ==
    /\ sessions[s].at = "called"
    /\ ~RowLocked
    /\ IF credits >= sessions[s].p_amount
       THEN /\ credits' = credits - sessions[s].p_amount
            /\ sessions' = [sessions EXCEPT ![s] =
                                [@ EXCEPT !.at = "updated", !.seen = credits,
                                          !.current_credits = credits - sessions[s].p_amount]]
       ELSE /\ credits' = credits
            /\ sessions' = [sessions EXCEPT ![s] =
                                [@ EXCEPT !.at = "not_found", !.seen = credits]]
    /\ DbFrame

\* IF NOT FOUND THEN RAISE EXCEPTION 'Insufficient credits'
DecrementRaise(s) ==
    /\ sessions[s].at = "not_found"
    /\ sessions' = [sessions EXCEPT ![s] = [@ EXCEPT !.at = "raised"]]
    /\ credits' = credits
    /\ DbFrame

\* RETURN current_credits, and the transaction commits
DecrementReturn(s) ==
    /\ sessions[s].at = "updated"
    /\ sessions' = [sessions EXCEPT ![s] = [@ EXCEPT !.at = "returned"]]
    /\ credits' = credits
    /\ DbFrame

DbNext ==
    \/ \E s \in DOMAIN sessions : DecrementUpdate(s)
    \/ \E s \in DOMAIN sessions : DecrementRaise(s)
    \/ \E s \in DOMAIN sessions : DecrementReturn(s)

DbSpec == DbInit /\ [][DbNext]_vars

----------------------------------------------------------------------------
(* GenerateForm, components/forms/GenerateForm.tsx *)

\* the requests onSubmit builds from the form data: model is always 'auto'
FormRequests ==
    { r \in Requests : r.options.model = "auto" /\ r.style = "scandinavian"
                          /\ r.options.resolution = "hd" }

\* `errorData.message || 'Generation failed'`
ERR_GENERATION == "Generation failed"

\* response.ok
Ok(r) == r.status \in 200..299

\* how an awaited promise of onSubmit settled: fetch rejected ("throw"),
\* response.json() rejected ("malformed") or gave a value ("ok")
Settled(kind) == [kind |-> kind, n |-> 0, dims |-> Size(0, 0)]

FormFrame == UNCHANGED <<env, request, pc, invoked, response, currentIndex, database>>

\* parked without its i-th invocation, which has returned
Returned(i) == [j \in 1..(Len(parked) - 1) |-> IF j < i THEN parked[j] ELSE parked[j + 1]]

\* the `catch` and `finally` blocks of onSubmit, run by invocation i
SubmitFails(i, msg) ==
    /\ error' = msg
    /\ isLoading' = FALSE
    /\ parked' = Returned(i)
    /\ UNCHANGED <<calls, result, history, generated>>
    /\ FormFrame

\* OnSubmit with a submit button that is never disabled
OnSubmitNeverDisabled ==
    /\ Len(calls) < MaxSubmits
    /\ isLoading' = TRUE
    /\ error' = NoError
    /\ \E req \in FormRequests :
         /\ calls' = Append(calls, [kind |-> "post", endpoint |-> "/api/generate",
                                    body |-> req])
         /\ parked' = Append(parked, [at |-> "fetch", request |-> req,
                                      response |-> NoResponse])
    /\ answer' = NoAnswer
    /\ UNCHANGED <<result, history, generated>>
    /\ FormFrame

\* the submit button is enabled (`disabled={isLoading}`) and pressed:
\* onSubmit up to `await fetch`
OnSubmit ==
    /\ ~isLoading
    /\ Len(calls) < MaxSubmits
    /\ isLoading' = TRUE
    /\ error' = NoError
    /\ \E req \in FormRequests :
         /\ calls' = Append(calls, [kind |-> "post", endpoint |-> "/api/generate",
                                    body |-> req])
         /\ parked' = Append(parked, [at |-> "fetch", request |-> req,
                                      response |-> NoResponse])
    /\ answer' = NoAnswer
    /\ UNCHANGED <<result, history, generated>>
    /\ FormFrame

\* onSubmit: `await fetch` settles, with a response of some status or
\* rejected
SubmitFetchSettles ==
    \E i \in DOMAIN parked :
       /\ parked[i].at = "fetch"
       /\ \E st \in {0, 200, 400, 500} :
            IF st = 0
            THEN /\ answer' = Settled("throw")
                 /\ SubmitFails(i, ERR_FETCH)
            ELSE /\ parked' = [parked EXCEPT ![i] =
                                  [@ EXCEPT !.at = "json", !.response = [status |-> st]]]
                 /\ UNCHANGED <<calls, result, error, answer, history,
                                generated, isLoading>>
                 /\ FormFrame

\* onSubmit: `await response.json()` settles, of the error body or of the
\* result
SubmitReads ==
    \E i \in DOMAIN parked :
       /\ parked[i].at = "json"
       /\ \E readable \in BOOLEAN, n \in {1, 4} :
            IF ~readable
            THEN answer' = Settled("malformed") /\ SubmitFails(i, ERR_BODY)
            ELSE /\ answer' = Settled("ok")
                 /\ IF ~Ok(parked[i].response)
                    THEN \* the route's 500 body carries a message, here that
                         \* of a route without credentials; its 400 body none
                         SubmitFails(i, IF parked[i].response.status = 500
                                        THEN ERR_FAL_KEY ELSE ERR_GENERATION)
                    ELSE \* `onGenerated(result)` and the `finally` block
                         /\ SetResultAndHistory(NewResult(n))
                         /\ isLoading' = FALSE
                         /\ parked' = Returned(i)
                         /\ UNCHANGED <<calls, error>>
                         /\ FormFrame

FormInit ==
    /\ env = [FAL_KEY |-> FALSE, GOOGLE_CLOUD_PROJECT_ID |-> FALSE,
              GOOGLE_APPLICATION_CREDENTIALS |-> FALSE]
    /\ request = NoRequest
    /\ pc = "form"
    /\ invoked = << >>
    /\ calls = << >>
    /\ result = NoResult
    /\ error = NoError
    /\ answer = NoAnswer
    /\ response = NoResponse
    /\ parked = << >>
    /\ Elsewhere

FormNext ==
    \/ OnSubmit
    \/ SubmitFetchSettles
    \/ SubmitReads

\* every awaited promise of onSubmit settles
FormSpec ==
    /\ FormInit /\ [][FormNext]_vars
    /\ WF_vars(SubmitFetchSettles)
    /\ WF_vars(SubmitReads)

----------------------------------------------------------------------------
(* Vocabulary of the properties *)

\* the priority order of "auto" selection
PriorityOrder == <<"nano-banana", "imagen4", "flux2">>

\* the first provider of PriorityOrder that is available, or "none"
HighestAvailable(e) ==
    LET avail == {i \in DOMAIN PriorityOrder : Available(PriorityOrder[i], e)}
    IN  IF avail = {} THEN "none"
        ELSE PriorityOrder[CHOOSE i \in avail : \A j \in avail : i <= j]

\* the endpoint of each provider's generation API
EndpointOf(p) ==
    CASE p = "nano-banana" -> NANO_BANANA_URL
      [] p = "imagen4"     -> VERTEX_URL
      [] p = "flux2"       -> FLUX_URL

\* the settings a named model needs
RequiredSettings(m) ==
    CASE m = "imagen4" -> {"GOOGLE_CLOUD_PROJECT_ID", "GOOGLE_APPLICATION_CREDENTIALS"}
      [] OTHER -> {"FAL_KEY"}

\* those of them that are not set
MissingSettings(m, e) == {x \in RequiredSettings(m) : ~e[x]}

\* the generation requests among the outbound requests
GenerateCalls == SelectSeq(calls, LAMBDA c : c.kind = "generate")

\* the pieces of a prompt, whatever their line
Pieces(prompt) ==
    UNION { {prompt[i][j] : j \in DOMAIN prompt[i]} : i \in DOMAIN prompt }

\* the presets declared for a style id
PresetsOf(id) ==
    { STYLE_PRESETS[i] : i \in {j \in DOMAIN STYLE_PRESETS : STYLE_PRESETS[j].id = id} }

\* the elements of a sequence
Range(q) == { q[i] : i \in DOMAIN q }

\* the enum fields of a request whose value is outside the closed set
OutsideFields(req) ==
    {f \in {"buildingType", "timeOfDay", "season", "angle", "wall", "roof"} :
        CASE f = "buildingType" -> req.buildingType \notin BuildingType
          [] f = "timeOfDay" -> req.environment.timeOfDay \notin TimeOfDay
          [] f = "season" -> req.environment.season \notin Season
          [] f = "angle" -> req.camera.angle \notin CameraAngle
          [] f = "wall" -> req.materials.wall \notin WallMaterial
          [] f = "roof" -> req.materials.roof \notin RoofType}

\* the generation request a client sends for a request
ClientRequest(client, req) ==
    CASE client = "nano-banana" -> NanoBananaRequest(req)
      [] client = "imagen4"     -> ImagenRequest(req)
      [] client = "flux2"       -> FluxRequest(req)

\* the value a client resolves with for a request and an answer
ClientResult(client, req, ans) ==
    CASE client = "nano-banana" -> NanoBananaResult(req, ans)
      [] client = "imagen4"     -> ImagenResult(req, ans)
      [] client = "flux2"       -> FluxResult(req, ans)

\* the message a client throws for an answer that is not a readable success
ClientError(client, ans) ==
    CASE ans.kind = "throw" -> ERR_FETCH
      [] ans.kind = "malformed" -> ERR_MALFORMED
      [] ans.kind = "notok" ->
            CASE client = "nano-banana" -> ERR_NANO_API
              [] client = "imagen4"     -> ERR_IMAGEN_API
              [] client = "flux2"       -> ERR_FLUX_API

\* the message a client throws before any answer
ClientEarlyError(client, e) ==
    IF client = "imagen4" THEN ERR_AUTH ELSE ERR_FAL_KEY

\* The locals c are those of an invocation run alone under environment e
\* with c.request and the answer c.answer: the client, the requests sent,
\* the result and the error are determined by them.
AsIfAlone(c, e) ==
    LET sel == SelectClient(c.request.options.model, e)
        gen == SelectSeq(c.calls, LAMBDA x : x.kind = "generate")
    IN  /\ c.invoked \in {<< >>, <<sel.client>>}
        /\ c.invoked = << >> => c.calls = << >>
        /\ \A i \in DOMAIN gen : gen[i] = ClientRequest(sel.client, c.request)
        /\ c.pc = "resolved" =>
              /\ c.answer.kind = "ok"
              /\ c.error = NoError
              /\ c.result = ClientResult(sel.client, c.request, c.answer)
        /\ c.pc = "rejected" =>
              /\ c.result = NoResult
              /\ c.error = IF sel.throw # NoError THEN sel.throw
                           ELSE IF c.answer = NoAnswer
                           THEN ClientEarlyError(sel.client, e)
                           ELSE ClientError(sel.client, c.answer)
        /\ c.pc \notin {"resolved", "rejected"} =>
              c.result = NoResult /\ c.error = NoError

\* each provider's resolution table
ResolutionTable(p, tier) ==
    CASE p = "nano-banana" -> NanoBananaImageSize(tier)
      [] p = "imagen4"     -> ImagenImageSize(tier)
      [] p = "flux2"       -> sizeMap[tier]

----------------------------------------------------------------------------
(* Properties *)

\* C1: under model 'auto', whenever some provider is available, the one
\* client invoked is that of the first available provider in the order
\* nano-banana, imagen4, flux2; its endpoint is the only one called and its
\* id is the model of the result.
C1_AutoPicksFirstAvailable ==
    (request.options.model = "auto" /\ pc # "dispatch"
        /\ HighestAvailable(env) # "none")
    => /\ invoked = <<HighestAvailable(env)>>
       /\ \A i \in DOMAIN GenerateCalls :
            GenerateCalls[i].endpoint = EndpointOf(HighestAvailable(env))
       /\ pc = "resolved" => result.model = HighestAvailable(env)

\* only Imagen 4 is available and an 'auto' request was served by it
C1_Witness ==
    /\ request.options.model = "auto"
    /\ ~isNanoBananaAvailable(env) /\ isImagen4Available(env)
    /\ pc = "resolved"
    /\ result.model = "imagen4"
    /\ Last(calls).endpoint = VERTEX_URL

\* C2: a request that names a model whose availability predicate is false
\* is rejected with a message naming every missing setting, and no outbound
\* request is made.
C2_UnavailableNamedFailsWithoutCall ==
    (request.options.model # "auto"
        /\ ~Available(request.options.model, env))
    => /\ calls = << >>
       /\ result = NoResult
       /\ pc \in {"dispatch", "client", "rejected"}
       /\ pc = "rejected" =>
            /\ MissingSettings(request.options.model, env) # {}
            /\ MissingSettings(request.options.model, env) \subseteq SettingsNamed(error)

\* 'flux2' was requested without FAL_KEY and the invocation was rejected
C2_Witness ==
    /\ request.options.model = "flux2"
    /\ ~env.FAL_KEY
    /\ pc = "rejected"
    /\ error = ERR_FAL_KEY
    /\ calls = << >>

\* C3 as stated: for every named model the client invoked and the model of
\* the result are the requested one.
C3_NamedModelIsServedAsNamed ==
    (request.options.model # "auto" /\ invoked # << >>)
    => /\ \A i \in DOMAIN invoked : invoked[i] = request.options.model
       /\ pc = "resolved" => result.model = request.options.model

\* C3 amended: for 'nano-banana', 'imagen4' and 'flux2' the one client
\* invoked, the only endpoint called and the model of the result are the
\* requested provider's; for the alias 'gemini' they are Nano Banana's.
C3_NamedModelNeverSubstituted ==
    (request.options.model # "auto" /\ invoked # << >>)
    => LET named == IF request.options.model = "gemini" THEN "nano-banana"
                    ELSE request.options.model
       IN  /\ invoked = <<named>>
           /\ \A i \in DOMAIN GenerateCalls :
                GenerateCalls[i].endpoint = EndpointOf(named)
           /\ pc = "resolved" => result.model = named

\* 'flux2' was requested and served by the Flux endpoint
C3_Witness ==
    /\ request.options.model = "flux2"
    /\ pc = "resolved"
    /\ result.model = "flux2"
    /\ calls = <<FluxRequest(request)>>

C5_AutoFailsOutright ==
    (request.options.model = "auto" /\ error # NoError)
    => /\ pc = "rejected"
       /\ Len(invoked) = 1
       /\ Len(GenerateCalls) <= 1
       /\ result = NoResult

\* Nano Banana answered with an error status while Imagen 4 was available
C5_Witness ==
    /\ request.options.model = "auto"
    /\ isNanoBananaAvailable(env) /\ isImagen4Available(env)
    /\ pc = "rejected"
    /\ error = ERR_NANO_API
    /\ invoked = <<"nano-banana">>

\* C6: a result carries exactly request.options.count images.
C6_NoPartialResult ==
    pc = "resolved" => Len(result.images) = request.options.count

\* C7 as stated: under 'auto' with neither Nano Banana nor Imagen 4
\* available, a finished invocation has invoked the Flux client and sent a
\* request to the Flux endpoint.
C7_FallbackCallsFlux ==
    (request.options.model = "auto"
        /\ ~isNanoBananaAvailable(env) /\ ~isImagen4Available(env)
        /\ pc \in {"resolved", "rejected"})
    => /\ invoked = <<"flux2">>
       /\ \E i \in DOMAIN calls : calls[i].endpoint = FLUX_URL

\* C7 amended: under 'auto' with neither Nano Banana nor Imagen 4
\* available, the Flux client is invoked and it fails on the missing
\* FAL_KEY before any outbound request.
C7_FallbackInvokesFluxClient ==
    (request.options.model = "auto"
        /\ ~isNanoBananaAvailable(env) /\ ~isImagen4Available(env)
        /\ pc # "dispatch")
    => /\ invoked = <<"flux2">>
       /\ calls = << >>
       /\ pc \in {"client", "rejected"}
       /\ pc = "rejected" => error = ERR_FAL_KEY

\* nothing is available and the 'auto' request ended in the Flux client
C7_Witness ==
    /\ request.options.model = "auto"
    /\ ~isNanoBananaAvailable(env) /\ ~isImagen4Available(env)
    /\ pc = "rejected"
    /\ invoked = <<"flux2">>
    /\ error = ERR_FAL_KEY

\* C8: the model of a result is one of 'nano-banana', 'imagen4', 'flux2'
\* and it is the provider whose endpoint received the generation request.
C8_ResultModelIsServingProvider ==
    pc = "resolved"
    => /\ result.model \in {"nano-banana", "imagen4", "flux2"}
       /\ GenerateCalls # << >>
       /\ Last(GenerateCalls).endpoint = EndpointOf(result.model)

\* an 'auto' request was served by Nano Banana
C8_Witness ==
    /\ request.options.model = "auto"
    /\ pc = "resolved"
    /\ result.model = "nano-banana"
    /\ Last(calls).endpoint = NANO_BANANA_URL

\* C9 as stated: every generation request carries buildPrompt(request),
\* the negative prompt and request.options.count, and the prompt of the
\* result is the prompt sent.
C9_RequestCarriesPromptNegativeCount ==
    /\ \A i \in DOMAIN GenerateCalls :
         /\ GenerateCalls[i].prompt = buildPrompt(request)
         /\ GenerateCalls[i].negativePrompt = buildNegativePrompt
         /\ GenerateCalls[i].count = request.options.count
    /\ pc = "resolved" => result.prompt = Last(GenerateCalls).prompt

\* C9 amended: every generation request carries buildPrompt(request) and
\* request.options.count; the requests to Imagen 4 and Flux carry the
\* negative prompt and the request to Nano Banana carries none; the prompt
\* of the result is the prompt sent.
C9_RequestCarriesPromptAndCount ==
    /\ \A i \in DOMAIN GenerateCalls :
         /\ GenerateCalls[i].prompt = buildPrompt(request)
         /\ GenerateCalls[i].count = request.options.count
         /\ GenerateCalls[i].negativePrompt =
              IF GenerateCalls[i].endpoint = NANO_BANANA_URL THEN NotSent
              ELSE buildNegativePrompt
    /\ pc = "resolved" => result.prompt = Last(GenerateCalls).prompt

\* Flux served a request for four images
C9_Witness ==
    /\ pc = "resolved"
    /\ result.model = "flux2"
    /\ request.options.count = 4
    /\ Last(calls).count = 4
    /\ Last(calls).negativePrompt = buildNegativePrompt

\* C10: in each provider's resolution table the tiers sd, hd and 4k have
\* pairwise distinct sizes, each wider than high (stated for the tier of
\* the request against every other tier; the requests cover all tiers).
C10_TiersDistinctAndLandscape ==
    LET t == request.options.resolution
    IN  \A p \in {"nano-banana", "imagen4", "flux2"} :
           /\ \A t2 \in Resolution \ {t} :
                ResolutionTable(p, t) # ResolutionTable(p, t2)
           /\ ResolutionTable(p, t).width > ResolutionTable(p, t).height

\* Nano Banana attributed its hd size to an image of an 'hd' request
C10_Witness ==
    /\ pc = "resolved"
    /\ result.model = "nano-banana"
    /\ request.options.resolution = "hd"
    /\ Len(result.images) > 0
    /\ result.images[1].width = 1920
    /\ result.images[1].height = 1080

\* C11 as stated: every image of a result has the width and height of the
\* requested tier in the serving provider's table.
C11_ImagesHaveTierSize ==
    pc = "resolved"
    => \A i \in DOMAIN result.images :
          LET tier == ResolutionTable(result.model, request.options.resolution)
          IN  /\ result.images[i].width = tier.width
              /\ result.images[i].height = tier.height

\* C11 amended: an image served by Imagen 4 has the requested tier's size;
\* an image served by Nano Banana has the size the answer carries and the
\* requested tier's size where the answer carries none; an image served by
\* Flux has the size the answer carries.
C11_ImageSizeByProvider ==
    pc = "resolved"
    => \A i \in DOMAIN result.images :
          LET tier == ResolutionTable(result.model, request.options.resolution)
              img == result.images[i]
          IN  CASE result.model = "imagen4" ->
                     img.width = tier.width /\ img.height = tier.height
                [] result.model = "nano-banana" ->
                     /\ img.width = IF answer.dims.width # 0
                                    THEN answer.dims.width ELSE tier.width
                     /\ img.height = IF answer.dims.height # 0
                                     THEN answer.dims.height ELSE tier.height
                [] result.model = "flux2" ->
                     img.width = answer.dims.width /\ img.height = answer.dims.height

\* Nano Banana answered an 'hd' request without sizes and the image got
\* the hd size of its table
C11_Witness ==
    /\ pc = "resolved"
    /\ result.model = "nano-banana"
    /\ request.options.resolution = "hd"
    /\ answer.dims = Size(0, 0)
    /\ Len(result.images) = 1
    /\ result.images[1].width = 1920 /\ result.images[1].height = 1080

\* C13: the prompt contains the decimal floor count, the decimal total
\* floor area and the three colour strings of the request.
C13_PromptContainsNumbersAndColors ==
    pc = "prompt_built"
    => /\ ToString(request.floors) \in Pieces(result.prompt)
       /\ ToString(request.totalArea) \in Pieces(result.prompt)
       /\ request.colors.primary \in Pieces(result.prompt)
       /\ request.colors.secondary \in Pieces(result.prompt)
       /\ request.colors.accent \in Pieces(result.prompt)

\* a prompt was built for 3 floors, 120 square meters and named colours
C13_Witness ==
    /\ pc = "prompt_built"
    /\ request.floors = 3 /\ request.totalArea = 120
    /\ request.colors.accent = "gold"
    /\ <<"- Number of floors: ", "3">> \in Range(result.prompt)
    /\ <<"- Accent color: ", "gold">> \in Range(result.prompt)

\* C14: buildPrompt returns for every request; for each of the 7 styles
\* the prompt contains the preset's name and every keyword of the preset;
\* for any other style id its style line names 'Modern' and its keyword
\* line carries no keyword.
C14_StylePresetOrDefault ==
    /\ pc = "builder" => ENABLED BuildPrompt
    /\ pc = "prompt_built" =>
         IF request.style \in ArchitecturalStyle
         THEN /\ PresetsOf(request.style) # {}
              /\ \A p \in PresetsOf(request.style) :
                   /\ <<"- Style: ", p.name>> \in Range(result.prompt)
                   /\ Range(p.keywords) \subseteq Pieces(result.prompt)
                   /\ \E i \in DOMAIN result.prompt :
                        /\ result.prompt[i][1] = "- Design characteristics: "
                        /\ Len(result.prompt[i]) = 2 * Len(p.keywords)
                        /\ \A k \in DOMAIN p.keywords :
                             result.prompt[i][2 * k] = p.keywords[k]
         ELSE /\ <<"- Style: ", "Modern">> \in Range(result.prompt)
              /\ <<"- Design characteristics: ">> \in Range(result.prompt)

\* a prompt was built for a style id that has no preset
C14_Witness ==
    /\ pc = "prompt_built"
    /\ request.style = BadStyle
    /\ <<"- Style: ", "Modern">> \in Range(result.prompt)

\* C15: buildPrompt returns for a request with exactly one of its six enum
\* fields outside its closed set, and no place of the prompt holds an
\* undefined value.
C15_UnknownEnumGetsFallback ==
    Cardinality(OutsideFields(request)) = 1
    => /\ pc = "builder" => ENABLED BuildPrompt
       /\ pc = "prompt_built" => Undefined \notin Pieces(result.prompt)

\* C20: buildSummary returns for every request; the summary is the style's
\* Japanese name (the default one for a style id without preset), the floor
\* count, the noun of the building type and the total floor area, and the
\* nouns of the four building types are pairwise distinct.
C20_SummaryComposition ==
    /\ pc = "builder" => ENABLED BuildSummary
    /\ pc = "summary_built" =>
         LET s == result.summary
             noun(q) == q[5]
         IN  /\ IF PresetsOf(request.style) # {}
                THEN \E p \in PresetsOf(request.style) : s[1] = p.nameJa
                ELSE s[1] = "modan"
             /\ s[3] = ToString(request.floors)
             /\ s[7] = ToString(request.totalArea)
             /\ Len(s) = 8
             /\ request.buildingType \in BuildingType =>
                  \A b \in BuildingType \ {request.buildingType} :
                     noun(s) # noun(buildSummary([request EXCEPT !.buildingType = b]))

\* a summary was built for a commercial building in a style without preset
C20_Witness ==
    /\ pc = "summary_built"
    /\ request.buildingType = "building"
    /\ request.style = BadStyle
    /\ result.summary[1] = "modan"
    /\ result.summary[5] = "biru"

\* the request is a body whose enum fields are in their closed sets and
\* whose image count is 1 or 4
InClosedSets(req) ==
    /\ OutsideFields(req) = {}
    /\ req.style \in ArchitecturalStyle
    /\ req.landShape \in LandShape
    /\ req.options.resolution \in Resolution
    /\ req.options.model \in AIModel
    /\ req.options.count \in ImageCount

\* C17: a fetch that rejects, a non-success status and an unreadable body
\* make generateImages reject; once generateImages has an error it has no
\* result, and the handler answers 500 with that error's message; a 200
\* answer is only given for an invocation without error.
C17_FailuresSurfaceAs500 ==
    /\ answer.kind \in {"throw", "notok", "malformed"} => error # NoError
    /\ error # NoError =>
         /\ result = NoResult
         /\ pc \in {"rejected", "responded"}
         /\ pc = "responded" =>
              /\ response.status = 500
              /\ response.body.message = error
    /\ response.status = 200 =>
         /\ error = NoError
         /\ result # NoResult
         /\ response.body.status = "completed"

\* the token request failed and the handler answered 500 with its message
C17_Witness ==
    /\ pc = "responded"
    /\ error = ERR_AUTH
    /\ calls = <<TokenRequest>>
    /\ response.status = 500
    /\ response.body.message = ERR_AUTH

\* C18: a JSON body the schema refuses is answered 400 with no client
\* invoked and no outbound request; whenever generateImages is about to
\* run or a client was invoked, the request's enum fields are in their
\* closed sets and its count is 1 or 4.
C18_OnlyValidRequestsReachCore ==
    /\ (request # NotJson /\ pc \notin {"post", "validate"}
            /\ SchemaIssues(request) # {})
       => /\ pc = "responded"
          /\ response.status = 400
          /\ invoked = << >> /\ calls = << >>
          /\ result = NoResult /\ error = NoError
    /\ (pc = "dispatch" \/ invoked # << >> \/ calls # << >>)
       => request # NotJson /\ InClosedSets(request)

\* a body asking for 2 images was answered 400 before any client ran
C18_Witness ==
    /\ request # NotJson
    /\ request.options.count = 2
    /\ pc = "responded"
    /\ response.status = 400
    /\ "options.count" \in response.body.details
    /\ invoked = << >> /\ calls = << >>

C21_GeminiIsNanoBananaAlias ==
    (request.options.model = "gemini" /\ pc # "dispatch")
    => /\ invoked = <<"nano-banana">>
       /\ pc = "resolved" =>
            /\ result.model = "nano-banana"
            /\ calls = <<NanoBananaRequest(request)>>
       /\ pc = "rejected" => error # ERR_NANO_NOT_CONFIGURED
       /\ (pc = "rejected" /\ ~isNanoBananaAvailable(env)) =>
            /\ error = ERR_FAL_KEY
            /\ calls = << >>

\* 'gemini' was requested without FAL_KEY and the Nano Banana client itself
\* refused
C21_Witness ==
    /\ request.options.model = "gemini"
    /\ ~env.FAL_KEY
    /\ invoked = <<"nano-banana">>
    /\ pc = "rejected"
    /\ error = ERR_FAL_KEY

\* C22: whatever value of its closed enum a field of the request holds, the
\* table buildPrompt looks it up in has an entry for it (building type, time
\* of day, season, camera angle, wall material, roof type), a style id of
\* the closed enum has exactly one preset, and the prompt built for a
\* request whose fields are all inside their enums holds no undefined value.
C22_LookupTablesTotal ==
    /\ request.buildingType \in BuildingType
         => request.buildingType \in DOMAIN buildingTypeMap
    /\ request.environment.timeOfDay \in TimeOfDay
         => request.environment.timeOfDay \in DOMAIN timeMap
    /\ request.environment.season \in Season
         => request.environment.season \in DOMAIN seasonMap
    /\ request.camera.angle \in CameraAngle
         => request.camera.angle \in DOMAIN cameraMap
    /\ request.materials.wall \in WallMaterial
         => request.materials.wall \in DOMAIN MATERIAL_NAMES
    /\ request.materials.roof \in RoofType
         => request.materials.roof \in DOMAIN ROOF_NAMES
    /\ request.style \in ArchitecturalStyle
         => Cardinality({i \in DOMAIN STYLE_PRESETS :
                            STYLE_PRESETS[i].id = request.style}) = 1
    /\ (pc = "prompt_built" /\ OutsideFields(request) = {})
         => Undefined \notin Pieces(result.prompt)

\* the prompt was built for a request with the last roof type of the enum
\* and its table entry is in the prompt
C22_Witness ==
    /\ pc = "prompt_built"
    /\ OutsideFields(request) = {}
    /\ request.style \in ArchitecturalStyle
    /\ request.materials.roof = "gambrel"
    /\ ROOF_NAMES["gambrel"] \in Pieces(result.prompt)

\* C23: the pixel dimensions a generation request asks the provider for are
\* the pair of the requested tier in every provider's resolution table, so
\* that a tier means one width and height whichever provider serves it.
C23_OnePairPerTier ==
    \A i \in DOMAIN GenerateCalls :
       GenerateCalls[i].imageSize # Size(0, 0)
       => \A p \in {"nano-banana", "imagen4", "flux2"} :
             GenerateCalls[i].imageSize
                = ResolutionTable(p, request.options.resolution)

\* C24: history holds at most 10 results, and it is the results generated
\* so far taken newest first and cut after the 10th (all of them when fewer
\* were generated); a step that generates a result leaves it displayed and
\* first in history.
C24_HistoryIsTenNewest ==
    /\ [](/\ Len(history) <= HISTORY_LIMIT
          /\ Len(history) = IF Len(generated) < HISTORY_LIMIT THEN Len(generated)
                            ELSE HISTORY_LIMIT
          /\ \A i \in DOMAIN history :
                history[i].id = generated[Len(generated) + 1 - i].id)
    /\ [][generated' # generated =>
            /\ result' = generated'[Len(generated')]
            /\ history'[1] = result']_vars

\* twelve results were generated: history holds the last ten, newest first,
\* and the second result generated is gone
C24_Witness ==
    /\ Len(generated) = 12
    /\ Len(history) = 10
    /\ history[1].id = 12 /\ history[10].id = 3
    /\ result.id = 12

\* C25: whenever the preview shows a result with at least one image,
\* currentIndex is an index of that result's images, so that currentImage
\* is defined.
C25_CurrentIndexValid ==
    Previewing => (0 <= currentIndex /\ currentIndex < Len(result.images))

\* C26: the displayed result and every history entry with its id agree on
\* isFavorite; a step that changes history without generating is a
\* handleFavorite(id): it flips isFavorite of exactly the entries with that
\* id, and of the displayed result if it has that id, and leaves every
\* other entry, the order and the length of history unchanged; applying
\* handleFavorite(id) twice gives back the displayed result and history.
C26_FavoriteConsistent ==
    /\ [](\A i \in DOMAIN history :
            (result # NoResult /\ history[i].id = result.id)
            => history[i].isFavorite = result.isFavorite)
    /\ [](\A id \in 0..Len(generated) :
            LET once == AfterFavorite(id, result, history)
                twice == AfterFavorite(id, once.result, once.history)
            IN  twice.result = result /\ twice.history = history)
    /\ [][(history' # history /\ generated' = generated) =>
            /\ Len(history') = Len(history)
            /\ \E id \in 1..Len(generated) :
                  /\ \A i \in DOMAIN history :
                        /\ history'[i].id = history[i].id
                        /\ history'[i].images = history[i].images
                        /\ history'[i].isFavorite =
                              IF history[i].id = id THEN ~history[i].isFavorite
                              ELSE history[i].isFavorite
                  /\ result' = IF result.id = id
                               THEN [result EXCEPT !.isFavorite = ~result.isFavorite]
                               ELSE result]_vars

\* the displayed result is an older history item, and it and its history
\* entry are favourites while the newest entry is not
C26_Witness ==
    /\ Len(history) = HISTORY_LIMIT
    /\ result # NoResult
    /\ result.id = history[4].id
    /\ result.isFavorite /\ history[4].isFavorite
    /\ ~history[1].isFavorite

\* C27: credits stays between 0 and its value before the calls; a call
\* that returned found credits >= p_amount and lowered credits by exactly
\* p_amount; a call that raised left credits as it found it.
C27_CreditsWithinBounds ==
    /\ 0 <= credits /\ credits <= creditsBefore
    /\ \A s \in DOMAIN sessions :
          /\ sessions[s].at \in {"updated", "returned"} =>
                /\ sessions[s].seen >= sessions[s].p_amount
                /\ sessions[s].current_credits = sessions[s].seen - sessions[s].p_amount
                /\ sessions[s].current_credits <= sessions[s].seen
          /\ sessions[s].at \in {"not_found", "raised"} =>
                sessions[s].seen < sessions[s].p_amount

\* C28 as stated: for a named model, a generation request is only made
\* when the model is listed as available, and an invocation for a model
\* listed as available does not end without having made the generation
\* request.
C28_AvailableIffReachesCall ==
    request.options.model # "auto"
    => /\ GenerateCalls # << >> => Available(request.options.model, env)
       /\ (Available(request.options.model, env) /\ pc \in {"resolved", "rejected"})
            => GenerateCalls # << >>

\* C28 amended: 'auto' is listed as available; for a named model, an
\* outbound request is only made when the model is listed as available; an
\* invocation that ended was rejected with a message naming a missing
\* setting exactly when the model is not listed as available; and an
\* invocation for a model listed as available that ended without the
\* generation request is one for Imagen 4 whose Google authentication failed.
C28_AvailableIffConfigured ==
    /\ Available("auto", env)
    /\ request.options.model # "auto"
       => LET listed == Available(request.options.model, env)
          IN  /\ calls # << >> => listed
              /\ pc \in {"resolved", "rejected"} =>
                    (listed <=> ~(pc = "rejected" /\ SettingsNamed(error) # {}))
              /\ (listed /\ pc \in {"resolved", "rejected"} /\ GenerateCalls = << >>)
                    => /\ Last(invoked) = "imagen4"
                       /\ error = ERR_AUTH

\* 'imagen4' is listed as available and was requested, and the invocation
\* was rejected for failed authentication before any generation request
C28_Witness ==
    /\ request.options.model = "imagen4"
    /\ Available("imagen4", env)
    /\ pc = "rejected"
    /\ error = ERR_AUTH
    /\ GenerateCalls = << >>

\* C29: under 'auto' no outbound request goes to the Flux endpoint and no
\* result reports model 'flux2'; the Flux client is only invoked when
\* FAL_KEY is absent, and then the invocation is rejected with 'FAL_KEY is
\* not configured' without any outbound request.
C29_AutoNeverServedByFlux ==
    request.options.model = "auto"
    => /\ \A i \in DOMAIN calls : calls[i].endpoint # FLUX_URL
       /\ pc # "flux_fetch"
       /\ result # NoResult => result.model # "flux2"
       /\ "flux2" \in Range(invoked) =>
            /\ ~env.FAL_KEY
            /\ pc \in {"client", "rejected"}
            /\ pc = "rejected" => (error = ERR_FAL_KEY /\ calls = << >>)

\* an 'auto' request with only GOOGLE_CLOUD_PROJECT_ID set fell back to the
\* Flux client, which refused for the missing FAL_KEY
C29_Witness ==
    /\ request.options.model = "auto"
    /\ env.GOOGLE_CLOUD_PROJECT_ID /\ ~env.GOOGLE_APPLICATION_CREDENTIALS
    /\ pc = "rejected"
    /\ "flux2" \in Range(invoked)
    /\ calls = << >>
    /\ SettingsNamed(error) = {"FAL_KEY"}

====
